---------------------------- MODULE Spec2Model ----------------------------
(***************************************************************************)
(* A model of tsrust: the edge store (TreeSequence::add_edge), the fluent  *)
(* TreeSequenceBuilder, the eager sweep TreeSequenceIterator::next, and    *)
(* the Tree queries parent / ancestor_chain / mrca.                        *)
(*                                                                         *)
(* Vectors are sequences; the element with Rust index i is at i + 1.       *)
(* Option<NodeId> is an integer: None is -1, Some(n) is n.                 *)
(***************************************************************************)
EXTENDS Integers, Sequences, FiniteSets, Bags, TLC

\* ------------------------------------------------------------------ bounds
\* Node ids 0..MaxNode are used by the freely chosen calls.
MaxNode == 2
\* Cursor positions and sequence lengths 0..MaxPos are used by the free calls.
MaxPos == 2
\* The longest children vector of a freely chosen insert / transplant.
MaxChildren == 2
\* The most edges a freely driven construction opens (builder) or adds (hand).
MaxEdges == 2
\* The longest parent array handed to Tree::new, and the largest id named in it.
MaxTreeLen == 3
\* The most calls a logged construction makes before end.
MaxCalls == 2

\* Option::None
None == -1

Nodes == 0..MaxNode
Positions == 0..MaxPos

\* ----------------------------------------------------------- vec helpers
Last(s) == s[Len(s)]

Reverse(s) == [i \in 1..Len(s) |-> s[Len(s) + 1 - i]]

\* Vec::remove(index), index counted from 1
VecRemove(s, i) == SubSeq(s, 1, i - 1) \o SubSeq(s, i + 1, Len(s))

\* Vec::insert(pos, e), pos counted from 0
VecInsert(s, pos, e) == SubSeq(s, 1, pos) \o <<e>> \o SubSeq(s, pos + 1, Len(s))

Range(s) == {s[i] : i \in 1..Len(s)}

SeqsUpTo(S, n) == UNION {[1..k -> S] : k \in 0..n}

Distinct(s) == \A i \in 1..Len(s), j \in 1..Len(s) : i # j => s[i] # s[j]

\* -------------------------------------------------------------- edge.rs
Edge(parent, child, left, right) ==
    [parent |-> parent, child |-> child, left |-> left, right |-> right]

\* Ord for Edge: the lexicographic order of (left, parent, child); right is
\* not compared.  -1: less, 0: equal, 1: greater.
EdgeCmp(a, b) ==
    IF a.left # b.left THEN (IF a.left < b.left THEN -1 ELSE 1)
    ELSE IF a.parent # b.parent THEN (IF a.parent < b.parent THEN -1 ELSE 1)
    ELSE IF a.child # b.child THEN (IF a.child < b.child THEN -1 ELSE 1)
    ELSE 0

\* ------------------------------------------------------------ treeseq.rs
\* TreeSequence::new
NewTreeSequence == [num_nodes |-> 0, edges |-> <<>>]

Max(a, b) == IF a >= b THEN a ELSE b

\* slice::binary_search over s[lo..hi) (0-based): Ok(index) of an element
\* comparing equal, or Err(insertion point).
RECURSIVE BinarySearchFrom(_, _, _, _)
BinarySearchFrom(s, e, lo, hi) ==
    IF lo >= hi THEN [found |-> FALSE, pos |-> lo]
    ELSE LET mid == lo + ((hi - lo) \div 2)
             c == EdgeCmp(s[mid + 1], e)
         IN  IF c = 0 THEN [found |-> TRUE, pos |-> mid]
             ELSE IF c < 0 THEN BinarySearchFrom(s, e, mid + 1, hi)
             ELSE BinarySearchFrom(s, e, lo, mid)

binary_search(s, e) == BinarySearchFrom(s, e, 0, Len(s))

\* The match on the search result: Ok panics, Err(pos) inserts at pos.
StoreLikeDraft(edges, e, found) ==
    [edges |-> VecInsert(edges, found.pos, e), panicked |-> FALSE]

StoreAtEnd(edges, e, found) ==
    IF found.found THEN [edges |-> edges, panicked |-> TRUE]
    ELSE [edges |-> Append(edges, e), panicked |-> FALSE]

Store(edges, e, found) ==
    IF found.found THEN [edges |-> edges, panicked |-> TRUE]
    ELSE [edges |-> VecInsert(edges, found.pos, e), panicked |-> FALSE]

\* TreeSequence::add_edge: num_nodes is raised first, then the edge is
\* stored at its sort position, or the call panics on an equal key.
AddEdgeCountsChildOnly(ts, child, parent, left, right) ==
    LET e == Edge(parent, child, left, right)
        n == Max(ts.num_nodes, child + 1)
        st == Store(ts.edges, e, binary_search(ts.edges, e))
    IN  [ts |-> [num_nodes |-> n, edges |-> st.edges], panicked |-> st.panicked]

add_edge(ts, child, parent, left, right) ==
    LET e == Edge(parent, child, left, right)
        n == Max(ts.num_nodes, Max(child, parent) + 1)
        st == Store(ts.edges, e, binary_search(ts.edges, e))
    IN  [ts |-> [num_nodes |-> n, edges |-> st.edges], panicked |-> st.panicked]


\* ----------------------------------------------------- treeseqbuilder.rs
\* A builder value: the TreeSequence under construction, the cursor, the open
\* edges (child, parent, left) in the order they were pushed, and whether a
\* call has panicked (the builder is then gone).
NewBuilderPresized ==
    [ts |-> [num_nodes |-> 1, edges |-> <<>>], last_breakpoint |-> 0,
     curr_edges |-> <<>>, panicked |-> FALSE]

NewBuilder ==
    [ts |-> NewTreeSequence, last_breakpoint |-> 0, curr_edges |-> <<>>,
     panicked |-> FALSE]

OpenEdge(child, parent, left) == [child |-> child, parent |-> parent, left |-> left]

\* TreeSequenceBuilder::insert: one push per child, no check for an open edge.
RECURSIVE insert(_, _, _)
insert(b, children, parent) ==
    IF children = <<>> THEN b
    ELSE insert([b EXCEPT !.curr_edges =
                     Append(@, OpenEdge(Head(children), parent, b.last_breakpoint))],
                Tail(children), parent)

\* TreeSequenceBuilder::breakpoint
breakpoint(b, position) == [b EXCEPT !.last_breakpoint = position]

\* iter().position(|(child, _, _)| *child == c): the first index (from 1) of
\* an open edge of c, 0 when there is none.
position(curr_edges, c) ==
    IF \E i \in 1..Len(curr_edges) : curr_edges[i].child = c
    THEN CHOOSE i \in 1..Len(curr_edges) :
            /\ curr_edges[i].child = c
            /\ \A j \in 1..(i - 1) : curr_edges[j].child # c
    ELSE 0

\* The right end of the edge a transplant flushes.
FlushRightIsLeft(b, o) == o.left

FlushRight(b, o) == b.last_breakpoint

\* One iteration of transplant's loop: flush the open edge of c if there is
\* one, then open a new edge if new_parent is Some.
TransplantChildStrict(b, c, new_parent) ==
    LET index == position(b.curr_edges, c)
    IN  IF index = 0 THEN [b EXCEPT !.panicked = TRUE]
        ELSE LET o == b.curr_edges[index]
                 r == add_edge(b.ts, o.child, o.parent, o.left, b.last_breakpoint)
                 flushed == [b EXCEPT !.curr_edges = VecRemove(@, index),
                                      !.ts = r.ts,
                                      !.panicked = r.panicked]
             IN  IF flushed.panicked \/ new_parent = None THEN flushed
                 ELSE [flushed EXCEPT !.curr_edges =
                          Append(@, OpenEdge(c, new_parent, b.last_breakpoint))]

TransplantChild(b, c, new_parent) ==
    LET index == position(b.curr_edges, c)
        flushed ==
            IF index # 0
            THEN LET o == b.curr_edges[index]
                     r == add_edge(b.ts, o.child, o.parent, o.left, FlushRight(b, o))
                 IN  [b EXCEPT !.curr_edges = VecRemove(@, index),
                               !.ts = r.ts,
                               !.panicked = r.panicked]
            ELSE b
    IN  IF flushed.panicked THEN flushed
        ELSE IF new_parent # None
        THEN [flushed EXCEPT !.curr_edges =
                 Append(@, OpenEdge(c, new_parent, b.last_breakpoint))]
        ELSE flushed

\* TreeSequenceBuilder::transplant; a panic ends the loop.
RECURSIVE transplant(_, _, _)
transplant(b, children, new_parent) ==
    IF children = <<>> \/ b.panicked THEN b
    ELSE transplant(TransplantChild(b, Head(children), new_parent),
                    Tail(children), new_parent)

\* The right end of the edges end() closes.
EndRightIsCursor(b, seq_length) == b.last_breakpoint

EndRight(b, seq_length) == seq_length

\* TreeSequenceBuilder::end: every open edge is added, in curr_edges order.
RECURSIVE end(_, _)
end(b, seq_length) ==
    IF b.curr_edges = <<>> \/ b.panicked THEN b
    ELSE LET o == Head(b.curr_edges)
             r == add_edge(b.ts, o.child, o.parent, o.left, EndRight(b, seq_length))
         IN  end([b EXCEPT !.curr_edges = Tail(@), !.ts = r.ts,
                           !.panicked = r.panicked], seq_length)

\* ------------------------------------------- treeseq.rs, the eager sweep
\* TreeSequence::iter: the edges reversed, so that the least left is last.
iter_(t) ==
    [num_nodes |-> t.num_nodes, current_edges |-> <<>>,
     upcoming_edges |-> Reverse(t.edges)]

\* min_by_key(|e| e.right) over a non-empty vector: the least right.
MinRight(cur) ==
    CHOOSE m \in {cur[i].right : i \in 1..Len(cur)} :
        \A i \in 1..Len(cur) : m <= cur[i].right

\* retain(|e| e.right > out_edge.right)
RemoveOutgoingKeepsTies(cur) ==
    IF cur = <<>> THEN cur
    ELSE LET m == MinRight(cur)
             first == CHOOSE i \in 1..Len(cur) :
                         /\ cur[i].right = m
                         /\ \A j \in 1..(i - 1) : cur[j].right # m
         IN  VecRemove(cur, first)

RemoveOutgoing(cur) ==
    IF cur = <<>> THEN cur
    ELSE LET m == MinRight(cur) IN SelectSeq(cur, LAMBDA e : e.right > m)

\* The while-let loop: pop from upcoming and push onto current while the
\* last upcoming edge's left is not greater than new_right.
RECURSIVE PullWhile(_, _, _)
PullWhile(cur, up, new_right) ==
    IF up = <<>> \/ Last(up).left > new_right
    THEN [current_edges |-> cur, upcoming_edges |-> up]
    ELSE PullWhile(Append(cur, Last(up)), SubSeq(up, 1, Len(up) - 1), new_right)

AddIncoming(cur, up) ==
    IF up = <<>> THEN [current_edges |-> cur, upcoming_edges |-> up]
    ELSE PullWhile(cur, up, Last(up).left)

\* parent[e.child] = Some(e.parent) for each current edge, in order.
RECURSIVE SetParentsSwapped(_, _)
SetParentsSwapped(parent, cur) ==
    IF cur = <<>> THEN parent
    ELSE SetParentsSwapped([parent EXCEPT ![Head(cur).parent + 1] = Head(cur).child],
                           Tail(cur))

RECURSIVE SetParents(_, _)
SetParents(parent, cur) ==
    IF cur = <<>> THEN parent
    ELSE SetParents([parent EXCEPT ![Head(cur).child + 1] = Head(cur).parent],
                    Tail(cur))

\* The Tree built from the current edges: num_nodes entries, None by default.
MakeTree(num_nodes, cur) == SetParents([i \in 1..num_nodes |-> None], cur)

\* TreeSequenceIterator::next: the iterator after the call and the item it
\* returns (some = FALSE: None).
NextStopsWhenNoneUpcoming(it) ==
    LET kept == RemoveOutgoing(it.current_edges)
        moved == AddIncoming(kept, it.upcoming_edges)
        it2 == [it EXCEPT !.current_edges = moved.current_edges,
                          !.upcoming_edges = moved.upcoming_edges]
    IN  IF moved.upcoming_edges = <<>>
        THEN [it |-> it2, some |-> FALSE, tree |-> <<>>]
        ELSE [it |-> it2, some |-> TRUE,
              tree |-> MakeTree(it.num_nodes, moved.current_edges)]

next(it) ==
    LET kept == RemoveOutgoing(it.current_edges)
        moved == AddIncoming(kept, it.upcoming_edges)
        it2 == [it EXCEPT !.current_edges = moved.current_edges,
                          !.upcoming_edges = moved.upcoming_edges]
    IN  IF moved.current_edges = <<>> /\ moved.upcoming_edges = <<>>
        THEN [it |-> it2, some |-> FALSE, tree |-> <<>>]
        ELSE [it |-> it2, some |-> TRUE,
              tree |-> MakeTree(it.num_nodes, moved.current_edges)]

\* ------------------------------------------------ the streaming iterator
\* streaming_iter: one Tree of num_nodes roots, owned by the iterator, with
\* the same upcoming and active sets as the eager sweep.
streaming_iter(t) ==
    [tree |-> [i \in 1..t.num_nodes |-> None], current_edges |-> <<>>,
     upcoming_edges |-> Reverse(t.edges)]

\* On eviction: parent[child] = None for every evicted edge's child.
RECURSIVE Evict(_, _)
Evict(tree, evicted) ==
    IF evicted = <<>> THEN tree
    ELSE Evict([tree EXCEPT ![Head(evicted).child + 1] = None], Tail(evicted))

\* On arrival: parent[child] = Some(parent) for every newly active edge.
RECURSIVE Arrive(_, _)
Arrive(tree, arrived) ==
    IF arrived = <<>> THEN tree
    ELSE Arrive([tree EXCEPT ![Head(arrived).child + 1] = Head(arrived).parent],
                Tail(arrived))

\* advance: the eager sweep's two steps, applied to the one Tree.
advance(si) ==
    LET cur == si.current_edges
        evicted == IF cur = <<>> THEN <<>>
                   ELSE SelectSeq(cur, LAMBDA e : e.right = MinRight(cur))
        kept == IF cur = <<>> THEN <<>>
                ELSE SelectSeq(cur, LAMBDA e : e.right # MinRight(cur))
        up == si.upcoming_edges
        arrived == IF up = <<>> THEN <<>>
                   ELSE Reverse(SelectSeq(up, LAMBDA e : e.left = Last(up).left))
        rest == IF up = <<>> THEN <<>>
                ELSE SelectSeq(up, LAMBDA e : e.left # Last(up).left)
    IN  [tree |-> Arrive(Evict(si.tree, evicted), arrived),
         current_edges |-> kept \o arrived,
         upcoming_edges |-> rest]

\* get: no value once both sets are empty, else the one Tree as it is now.
get(si) ==
    IF si.current_edges = <<>> /\ si.upcoming_edges = <<>>
    THEN [some |-> FALSE, tree |-> <<>>]
    ELSE [some |-> TRUE, tree |-> si.tree]

\* ---------------------------------------------------------------- tree.rs
\* Tree::parent: self.parent.get(u)?.clone(), None beyond the bounds.
ParentOffByOne(p, u) == IF u \in 1..Len(p) THEN p[u] ELSE None

parent(p, u) == IF u + 1 \in 1..Len(p) THEN p[u + 1] ELSE None

\* The while-let loop of ancestor_chain.  Every push is made from a node
\* inside the array that has a parent, so a walk that never repeats a node
\* pushes at most Len(p) times; a walk that needs one more push is on a cycle
\* and never ends.  <<>> stands for the call that never returns (the code
\* itself returns a non-empty vector whenever it returns).
RECURSIVE Walk(_, _, _, _)
Walk(p, chain, child, fuel) ==
    LET par == parent(p, child)
    IN  IF par = None THEN chain
        ELSE IF fuel = 0 THEN <<>>
        ELSE Walk(p, Append(chain, par), par, fuel - 1)

\* Tree::ancestor_chain
ancestor_chain(p, x) == Walk(p, <<x>>, x, Len(p))

Min(a, b) == IF a <= b THEN a ELSE b

\* The bound of mrca's while loop: cmp::min(u_len, v_len).
LoopBoundShort(u_anc, v_anc) == Min(Len(u_anc), Len(v_anc)) - 1

LoopBound(u_anc, v_anc) == Min(Len(u_anc), Len(v_anc))

\* What mrca returns at the first pair that differs.
AtMismatchOwnNode(u_anc, v_anc, i, common_ancestor) == u_anc[Len(u_anc) - i]

AtMismatch(u_anc, v_anc, i, common_ancestor) == common_ancestor

\* mrca's while loop; u_anc[u_len - i - 1] is u_anc[Len(u_anc) - i] here.
RECURSIVE MrcaLoop(_, _, _, _)
MrcaLoop(u_anc, v_anc, i, common_ancestor) ==
    IF i < LoopBound(u_anc, v_anc)
    THEN IF u_anc[Len(u_anc) - i] # v_anc[Len(v_anc) - i]
         THEN AtMismatch(u_anc, v_anc, i, common_ancestor)
         ELSE MrcaLoop(u_anc, v_anc, i + 1, u_anc[Len(u_anc) - i])
    ELSE common_ancestor

\* Tree::mrca applied to two chains that were both returned.
MrcaOfChains(u_anc, v_anc) ==
    IF Last(u_anc) # Last(v_anc) THEN None
    ELSE MrcaLoop(u_anc, v_anc, 0, Last(u_anc))

\* A call of Tree::mrca: it returns a value, or never returns because one of
\* the two chain walks never ends.
mrca(p, u, v) ==
    LET u_anc == ancestor_chain(p, u)
        v_anc == ancestor_chain(p, v)
    IN  IF u_anc = <<>> \/ v_anc = <<>>
        THEN [state |-> "hung", value |-> None]
        ELSE [state |-> "returned", value |-> MrcaOfChains(u_anc, v_anc)]

\* ------------------------------------------------------------------ state
VARIABLES
    driver,          \* who makes the calls: "builder" (freely chosen builder
                     \* calls), "hand" (add_edge called directly, as the tests'
                     \* hand_rolled does) or "example" (example_ts's calls)
    step,            \* the number of example_ts calls made so far
    ts,              \* the TreeSequence: num_nodes and edges
    last_breakpoint, \* the builder's cursor
    curr_edges,      \* the builder's open edges
    phase,           \* "building", "panicked", "ended", "iterating", "exhausted"
    seq_length,      \* the argument end was called with, None before
    it,              \* the TreeSequenceIterator
    trees,           \* the Trees next has returned so far, in order
    advances,        \* per call of next: the right it evicted at and the left
                     \* it pulled in at (None: nothing evicted / pulled in)
    hist,            \* the record of the calls: the edges open and the bag of
                     \* the edges closed (or, by hand, added) so far
    sit,             \* the streaming iterator
    strees,          \* the parent arrays read from it after each advance
    orphaned,        \* the pairs <<c, x>> such that a transplant(c, None) at
                     \* cursor x closed an open edge of c
    calls,           \* the calls made so far, in order, when the driver is
                     \* "logged" (a short chain of freely chosen builder calls)
    t_parent,        \* the parent array of a Tree made by Tree::new
    t_u, t_v,        \* the two nodes queried on it
    t_res            \* the outcome of mrca(t_u, t_v), of mrca(t_v, t_u) and of
                     \* parent(t_u)

vars == <<driver, step, ts, last_breakpoint, curr_edges, phase, seq_length, it,
          trees, advances, hist, orphaned, calls, sit, strees, t_parent, t_u,
          t_v, t_res>>

builderVars == <<driver, step, ts, last_breakpoint, curr_edges, phase,
                 seq_length, it, trees, advances, hist, orphaned, calls, sit,
                 strees>>

streamVars == <<sit, strees>>

treeVars == <<t_parent, t_u, t_v, t_res>>

Pending == [state |-> "pending", value |-> None]

\* No query has been made yet.
NoResults == [uv |-> Pending, vu |-> Pending, pu |-> Pending]

\* -------------------------------------------------------------- the calls
Call(op, children, arg) == [op |-> op, children |-> children, arg |-> arg]

\* example_ts of the tests, which is main's construction too.
ExampleScript ==
    << Call("insert", <<0, 1>>, 4),
       Call("insert", <<2, 3>>, 5),
       Call("insert", <<4, 5>>, 6),
       Call("breakpoint", <<>>, 1),
       Call("transplant", <<0>>, 6),
       Call("transplant", <<1>>, 5),
       Call("breakpoint", <<>>, 2),
       Call("transplant", <<0, 5>>, None),
       Call("end", <<>>, 3) >>

ChildLists == SeqsUpTo(Nodes, MaxChildren)

FreeCalls ==
    {Call("insert", cs, p) : cs \in ChildLists, p \in Nodes}
    \cup {Call("breakpoint", <<>>, x) : x \in Positions}
    \cup {Call("transplant", cs, np) : cs \in ChildLists, np \in Nodes \cup {None}}
    \cup {Call("end", <<>>, x) : x \in Positions}

\* The number of edges opened or added so far.
Budget == Len(hist.open) + BagCardinality(hist.closed)

\* The open edges of the children named in cs.
OpenOf(cs) == {o \in Range(curr_edges) : o.child \in Range(cs)}

\* A caller that keeps to the builder's discipline makes call c only when it
\* leaves every child with at most one open edge and closes an edge only
\* after a breakpoint has put the cursor beyond the edge's left; end is
\* called with a seq_length beyond the cursor.
Disciplined(c) ==
    CASE c.op = "insert" -> Distinct(c.children) /\ OpenOf(c.children) = {}
      [] c.op = "transplant" ->
            /\ \A o \in OpenOf(c.children) : o.left < last_breakpoint
            /\ c.arg # None => Distinct(c.children)
      [] c.op = "end" ->
            /\ c.arg > last_breakpoint
            /\ driver = "disciplined" =>
                  \A o \in Range(curr_edges) : o.left < last_breakpoint
      [] OTHER -> TRUE

\* The calls the driver may make next.  A free construction opens at most
\* MaxEdges edges; a logged one also makes at most MaxCalls calls before end;
\* a disciplined one makes disciplined calls only, and a monotone one is
\* disciplined and never moves the cursor backward.
NextCalls ==
    IF driver = "example"
    THEN IF step < Len(ExampleScript) THEN {ExampleScript[step + 1]} ELSE {}
    ELSE IF driver \in {"builder", "logged"}
    THEN {c \in FreeCalls :
            /\ (c.op = "insert" \/ (c.op = "transplant" /\ c.arg # None))
                  => Budget + Len(c.children) <= MaxEdges
            /\ (driver = "logged" /\ c.op # "end") => Len(calls) < MaxCalls}
    ELSE IF driver \in {"disciplined", "monotone"}
    THEN {c \in FreeCalls :
            /\ (c.op = "insert" \/ (c.op = "transplant" /\ c.arg # None))
                  => Budget + Len(c.children) <= MaxEdges
            /\ Disciplined(c)
            /\ (driver = "monotone" /\ c.op = "breakpoint")
                  => c.arg >= last_breakpoint}
    ELSE {}

\* The log after call c.
Logged(c) == IF driver = "logged" THEN Append(calls, c) ELSE calls

Builder ==
    [ts |-> ts, last_breakpoint |-> last_breakpoint, curr_edges |-> curr_edges,
     panicked |-> FALSE]

\* The builder after a call; a panic leaves no builder and no TreeSequence.
Becomes(b) ==
    /\ ts' = b.ts
    /\ last_breakpoint' = b.last_breakpoint
    /\ curr_edges' = b.curr_edges
    /\ phase' = IF b.panicked THEN "panicked" ELSE "building"

\* ------------------------------------------------- the record of the calls
\* What the calls ask for, kept beside the builder: the edges opened and not
\* yet closed (in opening order), and the bag of edges closed so far, each
\* with the cursor value (or seq_length) that closed it.
RECURSIVE Opened(_, _, _, _)
Opened(o, children, p, cursor) ==
    IF children = <<>> THEN o
    ELSE Opened(Append(o, OpenEdge(Head(children), p, cursor)),
                Tail(children), p, cursor)

\* The open edge of c that was opened first, 0 when c has none.
FirstOpen(o, c) ==
    IF \E i \in 1..Len(o) : o[i].child = c
    THEN CHOOSE i \in 1..Len(o) :
            /\ o[i].child = c
            /\ \A j \in 1..(i - 1) : o[j].child # c
    ELSE 0

Closing(o, right) == Edge(o.parent, o.child, o.left, right)

\* A transplant, child by child: [open |-> ..., closed |-> ...].
RECURSIVE Transplanted(_, _, _, _)
Transplanted(h, children, np, cursor) ==
    IF children = <<>> THEN h
    ELSE LET c == Head(children)
             i == FirstOpen(h.open, c)
             h1 == IF i # 0
                   THEN [open |-> VecRemove(h.open, i),
                         closed |-> h.closed (+) SetToBag({Closing(h.open[i], cursor)})]
                   ELSE h
             h2 == IF np # None
                   THEN [h1 EXCEPT !.open = Append(@, OpenEdge(c, np, cursor))]
                   ELSE h1
         IN  Transplanted(h2, Tail(children), np, cursor)

RECURSIVE Ended(_, _)
Ended(h, len) ==
    IF h.open = <<>> THEN h
    ELSE Ended([open |-> Tail(h.open),
                closed |-> h.closed (+) SetToBag({Closing(Head(h.open), len)})], len)

\* The pairs <<c, cursor>> of the children whose open edge a
\* transplant(children, None) at the cursor closes.
MadeRoots(h, children, cursor) ==
    {<<e.child, cursor>> :
        e \in BagToSet(Transplanted(h, children, None, cursor).closed (-) h.closed)}

\* ---------------------------------------------------------------- actions
Insert ==
    /\ phase = "building"
    /\ \E c \in NextCalls :
        /\ c.op = "insert"
        /\ Becomes(insert(Builder, c.children, c.arg))
        /\ hist' = [hist EXCEPT !.open = Opened(@, c.children, c.arg, last_breakpoint)]
        /\ calls' = Logged(c)
        /\ UNCHANGED orphaned
    /\ step' = step + (IF driver = "example" THEN 1 ELSE 0)
    /\ UNCHANGED <<driver, seq_length, it, trees, advances>>
    /\ UNCHANGED treeVars
    /\ UNCHANGED streamVars

Breakpoint ==
    /\ phase = "building"
    /\ \E c \in NextCalls :
        /\ c.op = "breakpoint"
        /\ Becomes(breakpoint(Builder, c.arg))
        /\ calls' = Logged(c)
        /\ UNCHANGED orphaned
    /\ step' = step + (IF driver = "example" THEN 1 ELSE 0)
    /\ UNCHANGED <<driver, seq_length, it, trees, advances, hist>>
    /\ UNCHANGED treeVars
    /\ UNCHANGED streamVars

Transplant ==
    /\ phase = "building"
    /\ \E c \in NextCalls :
        /\ c.op = "transplant"
        /\ Becomes(transplant(Builder, c.children, c.arg))
        /\ hist' = Transplanted(hist, c.children, c.arg, last_breakpoint)
        /\ orphaned' = IF c.arg = None
                       THEN orphaned \cup MadeRoots(hist, c.children, last_breakpoint)
                       ELSE orphaned
        /\ calls' = Logged(c)
    /\ step' = step + (IF driver = "example" THEN 1 ELSE 0)
    /\ UNCHANGED <<driver, seq_length, it, trees, advances>>
    /\ UNCHANGED treeVars
    /\ UNCHANGED streamVars

\* end consumes the builder: only the TreeSequence is left (the cursor is
\* shown as 0 from then on).
End ==
    /\ phase = "building"
    /\ \E c \in NextCalls :
        /\ c.op = "end"
        /\ LET b == end(Builder, c.arg)
           IN  /\ ts' = b.ts
               /\ curr_edges' = b.curr_edges
               /\ phase' = IF b.panicked THEN "panicked" ELSE "ended"
        /\ seq_length' = c.arg
        /\ hist' = Ended(hist, c.arg)
        /\ calls' = Logged(c)
        /\ UNCHANGED orphaned
    /\ last_breakpoint' = 0
    /\ step' = step + (IF driver = "example" THEN 1 ELSE 0)
    /\ UNCHANGED <<driver, it, trees, advances>>
    /\ UNCHANGED treeVars
    /\ UNCHANGED streamVars

\* add_edge called on a TreeSequence directly, as the tests and the treeseq!
\* macro do.
AddEdge(child, par, left, right) ==
    /\ driver = "hand"
    /\ phase = "building"
    /\ Budget < MaxEdges
    /\ LET r == add_edge(ts, child, par, left, right)
       IN  /\ ts' = r.ts
           /\ phase' = IF r.panicked THEN "panicked" ELSE "building"
    /\ hist' = [hist EXCEPT !.closed = @ (+) SetToBag({Edge(par, child, left, right)})]
    /\ UNCHANGED <<driver, step, last_breakpoint, curr_edges, seq_length, it,
                   trees, advances, orphaned, calls>>
    /\ UNCHANGED treeVars
    /\ UNCHANGED streamVars

HandAddEdge ==
    \E child \in Nodes, par \in Nodes, left \in Positions, right \in Positions :
        AddEdge(child, par, left, right)

\* ts.iter()
Iter ==
    /\ \/ phase = "ended"
       \/ driver = "hand" /\ phase = "building"
    /\ it' = iter_(ts)
    /\ phase' = "iterating"
    /\ UNCHANGED <<driver, step, ts, last_breakpoint, curr_edges, seq_length,
                   trees, advances, hist, orphaned, calls>>
    /\ UNCHANGED treeVars
    /\ UNCHANGED streamVars

\* ts_iter.next(); after None every further call finds both vectors empty
\* and returns None again.
IterNext ==
    /\ phase \in {"iterating", "exhausted"}
    /\ LET r == next(it)
       IN  /\ it' = r.it
           /\ trees' = IF r.some THEN Append(trees, r.tree) ELSE trees
           /\ phase' = IF r.some THEN "iterating" ELSE "exhausted"
    /\ advances' =
         IF phase = "exhausted" THEN advances
         ELSE Append(advances,
                [evict |-> IF it.current_edges = <<>> THEN None
                           ELSE MinRight(it.current_edges),
                 arrive |-> IF it.upcoming_edges = <<>> THEN None
                            ELSE Last(it.upcoming_edges).left])
    /\ UNCHANGED <<driver, step, ts, last_breakpoint, curr_edges, seq_length, hist,
                   orphaned, calls>>
    /\ UNCHANGED treeVars
    /\ UNCHANGED streamVars

\* ts.streaming_iter(), once the eager iteration is over (as in main).
StreamingIter ==
    /\ phase = "exhausted"
    /\ sit' = streaming_iter(ts)
    /\ strees' = <<>>
    /\ phase' = "streaming"
    /\ UNCHANGED <<driver, step, ts, last_breakpoint, curr_edges, seq_length, it,
                   trees, advances, hist, orphaned, calls>>
    /\ UNCHANGED treeVars

\* One turn of `while let Some(t) = ts_iter.next()`: advance, then get, and
\* the Tree is read before the next advance.
StreamNext ==
    /\ phase = "streaming"
    /\ LET si == advance(sit)
           r == get(si)
       IN  /\ sit' = si
           /\ strees' = IF r.some THEN Append(strees, r.tree) ELSE strees
           /\ phase' = IF r.some THEN "streaming" ELSE "streamed"
    /\ UNCHANGED <<driver, step, ts, last_breakpoint, curr_edges, seq_length, it,
                   trees, advances, hist, orphaned, calls>>
    /\ UNCHANGED treeVars

Init ==
    /\ driver \in {"builder", "hand", "example"}
    /\ step = 0
    /\ ts = NewBuilder.ts
    /\ last_breakpoint = NewBuilder.last_breakpoint
    /\ curr_edges = NewBuilder.curr_edges
    /\ phase = "building"
    /\ seq_length = None
    /\ it = iter_(NewTreeSequence)
    /\ trees = <<>>
    /\ advances = <<>>
    /\ hist = [open |-> <<>>, closed |-> EmptyBag]
    /\ orphaned = {}
    /\ calls = <<>>
    /\ sit = streaming_iter(NewTreeSequence)
    /\ strees = <<>>
    /\ t_parent = <<>>
    /\ t_u = 0
    /\ t_v = 0
    /\ t_res = NoResults

Next ==
    \/ Insert
    \/ Breakpoint
    \/ Transplant
    \/ End
    \/ HandAddEdge
    \/ Iter
    \/ IterNext
    \/ StreamingIter
    \/ StreamNext

Spec == Init /\ [][Next]_vars

\* ------------------------------------------------ short logged constructions
\* TreeSequenceBuilder::new() followed by at most MaxCalls chained calls and
\* end, with the calls kept in the log.
InitLogged ==
    /\ driver = "logged"
    /\ step = 0
    /\ ts = NewBuilder.ts
    /\ last_breakpoint = NewBuilder.last_breakpoint
    /\ curr_edges = NewBuilder.curr_edges
    /\ phase = "building"
    /\ seq_length = None
    /\ it = iter_(NewTreeSequence)
    /\ trees = <<>>
    /\ advances = <<>>
    /\ hist = [open |-> <<>>, closed |-> EmptyBag]
    /\ orphaned = {}
    /\ calls = <<>>
    /\ sit = streaming_iter(NewTreeSequence)
    /\ strees = <<>>
    /\ t_parent = <<>>
    /\ t_u = 0
    /\ t_v = 0
    /\ t_res = NoResults

NextLogged ==
    \/ Insert
    \/ Breakpoint
    \/ Transplant
    \/ End

SpecLogged == InitLogged /\ [][NextLogged]_vars

\* ------------------------------------------------ disciplined constructions
\* TreeSequenceBuilder::new() followed by calls that keep to the builder's
\* discipline, with a cursor that may move backward ("disciplined") or never
\* does ("monotone").
InitDisciplined ==
    /\ driver \in {"disciplined", "monotone"}
    /\ step = 0
    /\ ts = NewBuilder.ts
    /\ last_breakpoint = NewBuilder.last_breakpoint
    /\ curr_edges = NewBuilder.curr_edges
    /\ phase = "building"
    /\ seq_length = None
    /\ it = iter_(NewTreeSequence)
    /\ trees = <<>>
    /\ advances = <<>>
    /\ hist = [open |-> <<>>, closed |-> EmptyBag]
    /\ orphaned = {}
    /\ calls = <<>>
    /\ sit = streaming_iter(NewTreeSequence)
    /\ strees = <<>>
    /\ t_parent = <<>>
    /\ t_u = 0
    /\ t_v = 0
    /\ t_res = NoResults

NextDisciplined ==
    \/ Insert
    \/ Breakpoint
    \/ Transplant
    \/ End

SpecDisciplined == InitDisciplined /\ [][NextDisciplined]_vars

\* ------------------------------------------------- queries on a single Tree
\* Tree::new takes any parent array: entries None or a node id, which may lie
\* beyond the array.
TreeIds == 0..MaxTreeLen

ParentArrays == SeqsUpTo(TreeIds \cup {None}, MaxTreeLen)

\* t.mrca(t_u, t_v)
MrcaUV ==
    /\ t_res.uv.state = "pending"
    /\ t_res' = [t_res EXCEPT !.uv = mrca(t_parent, t_u, t_v)]
    /\ UNCHANGED <<t_parent, t_u, t_v>>
    /\ UNCHANGED builderVars

\* t.mrca(t_v, t_u)
MrcaVU ==
    /\ t_res.vu.state = "pending"
    /\ t_res' = [t_res EXCEPT !.vu = mrca(t_parent, t_v, t_u)]
    /\ UNCHANGED <<t_parent, t_u, t_v>>
    /\ UNCHANGED builderVars

InitTree ==
    /\ t_parent \in ParentArrays
    /\ t_u \in TreeIds
    /\ t_v \in TreeIds
    /\ t_res = NoResults
    /\ driver = "tree"
    /\ step = 0
    /\ ts = NewTreeSequence
    /\ last_breakpoint = 0
    /\ curr_edges = <<>>
    /\ phase = "building"
    /\ seq_length = None
    /\ it = iter_(NewTreeSequence)
    /\ trees = <<>>
    /\ advances = <<>>
    /\ hist = [open |-> <<>>, closed |-> EmptyBag]
    /\ orphaned = {}
    /\ calls = <<>>
    /\ sit = streaming_iter(NewTreeSequence)
    /\ strees = <<>>

\* t.parent(t_u)
ParentU ==
    /\ t_res.pu.state = "pending"
    /\ t_res' = [t_res EXCEPT !.pu = [state |-> "returned",
                                      value |-> parent(t_parent, t_u)]]
    /\ UNCHANGED <<t_parent, t_u, t_v>>
    /\ UNCHANGED builderVars

NextTree ==
    \/ MrcaUV
    \/ MrcaVU
    \/ ParentU

SpecTree == InitTree /\ [][NextTree]_vars

\* ================================================================ claims
FromBuilder == driver \in {"builder", "example"}

Finalized == phase \in {"ended", "iterating", "exhausted", "streaming", "streamed"}

Stored == Range(ts.edges)

\* The edges that say who is the parent of whom at position x.
Covering(x) == {e \in Stored : e.left <= x /\ x < e.right}

Topology(x) == {<<e.child, e.parent>> : e \in Covering(x)}

\* The positions of [0, len) at which a maximal interval of constant topology
\* starts.
Starts(len) == {x \in 0..(len - 1) : x = 0 \/ Topology(x) # Topology(x - 1)}

\* The k-th smallest element of a set of numbers.
Kth(S, k) == CHOOSE x \in S : Cardinality({y \in S : y <= x}) = k

\* parent[c] = Some(p) exactly when an edge (p, c) covers x.
TreeShows(tree, x) ==
    /\ \A c \in 0..(Len(tree) - 1) :
          tree[c + 1] # None => <<c, tree[c + 1]>> \in Topology(x)
    /\ \A pair \in Topology(x) :
          pair[1] < Len(tree) /\ tree[pair[1] + 1] = pair[2]

\* Two stored edges of one child whose half-open intervals share a position.
Overlapping(e, f) ==
    /\ e # f
    /\ e.child = f.child
    /\ Max(e.left, f.left) < Min(e.right, f.right)

\* The edges covering x hold a cycle: a non-empty set of nodes each of which
\* has its parent in the set.
CyclicAt(x) ==
    \E S \in SUBSET {pair[1] : pair \in Topology(x)} :
        /\ S # {}
        /\ \A c \in S : \E pair \in Topology(x) : pair[1] = c /\ pair[2] \in S

\* A construction with nothing odd about it: every stored edge is non-empty
\* and ends by seq_length, no child has two parents at a position, every
\* position of [0, seq_length) is covered by an edge, and the edges covering
\* a position hold no cycle.
PlainConstruction ==
    /\ FromBuilder
    /\ seq_length > 0
    /\ \A e \in Stored : e.left < e.right /\ e.right <= seq_length
    /\ \A e \in Stored, f \in Stored : ~Overlapping(e, f)
    /\ \A x \in 0..(seq_length - 1) : Covering(x) # {} /\ ~CyclicAt(x)

\* C1: when the eager iterator of a builder-made TreeSequence is exhausted, it
\* has yielded one Tree per maximal interval of constant topology, in order,
\* and the k-th Tree shows exactly the edges covering the k-th interval.
\* (Stated for the plain constructions, where the intervals are not in doubt.)
C1_OneTreePerConstantInterval ==
    (phase = "exhausted" /\ PlainConstruction) =>
        /\ Len(trees) = Cardinality(Starts(seq_length))
        /\ \A k \in 1..Len(trees) :
              k <= Cardinality(Starts(seq_length))
                  => TreeShows(trees[k], Kth(Starts(seq_length), k))

\* The parent arrays test_tree_sequence_iter expects.
ExampleTrees ==
    << <<4, 4, 5, 5, 6, 6, None>>,
       <<6, 5, 5, 5, 6, 6, None>>,
       <<None, 5, 5, 5, 6, None, None>> >>

\* C2: example_ts is built without a panic, and its iteration yields the
\* three expected Trees in order, one per call of next, and None on the
\* fourth call.
C2_ExampleYieldsThreeTrees ==
    driver = "example" =>
        /\ phase # "panicked"
        /\ phase \in {"iterating", "exhausted"} =>
              /\ Len(advances) <= 4
              /\ trees = SubSeq(ExampleTrees, 1, Min(Len(advances), 3))
              /\ (phase = "exhausted") <=> (Len(advances) = 4)

C2_ExampleExhausted ==
    /\ driver = "example"
    /\ phase = "exhausted"
    /\ Len(trees) = 3
    /\ Len(advances) = 4

\* The boundary an advance processed: where it pulled edges in, else where it
\* evicted edges.
Boundary(a) == IF a.arrive # None THEN a.arrive ELSE a.evict

OneBoundary(a) == a.arrive = None \/ a.evict = None \/ a.arrive = a.evict

\* C3: with the k-th Tree valid from the boundary of the k-th advance to the
\* boundary of the next one, the Trees' intervals tile [0, seq_length): every
\* advance processes one boundary, the first is 0, they strictly increase,
\* and the advance that finds the iterator exhausted processes seq_length.
\* (Stated for the plain constructions.)
C3_TreesTileTheSequence ==
    (phase = "exhausted" /\ PlainConstruction) =>
        /\ Len(advances) = Len(trees) + 1
        /\ \A k \in 1..Len(advances) : OneBoundary(advances[k])
        /\ Boundary(advances[1]) = 0
        /\ \A k \in 1..(Len(advances) - 1) :
              Boundary(advances[k]) < Boundary(advances[k + 1])
        /\ Boundary(advances[Len(advances)]) = seq_length

\* C4: in a TreeSequence finalized by the builder, no child is named in two
\* stored edges whose intervals overlap.
\* (Stated for the constructions in which no node is made its own parent.)
C4_NoChildInOverlappingEdges ==
    (FromBuilder /\ Finalized /\ \A e \in Stored : e.parent # e.child) =>
        \A e \in Stored, f \in Stored : ~Overlapping(e, f)

\* C5: the stored edges are always in strictly ascending (left, parent,
\* child) order.
C5_EdgesStrictlyAscending ==
    \A i \in 1..Len(ts.edges), j \in 1..Len(ts.edges) :
        i < j => EdgeCmp(ts.edges[i], ts.edges[j]) < 0

C5_OrderIgnoresRight ==
    /\ driver = "hand"
    /\ Len(ts.edges) = 2
    /\ ts.edges[1].right > ts.edges[2].right
    /\ ts.edges[1].left = ts.edges[2].left

\* The edges the calls of this step hand to add_edge.
Attempts == hist'.closed (-) hist.closed

Keys(S) == {<<e.left, e.parent, e.child>> : e \in S}

\* One of them has the key of a stored edge or of another of them.
DuplicateAttempted ==
    Len(ts.edges) + BagCardinality(Attempts)
        > Cardinality(Keys(Stored \cup BagToSet(Attempts)))

\* C6: a step in which add_edge is handed an edge whose key is already stored
\* panics, whatever the right values; no two edges with one key are stored;
\* and nothing happens after a panic.
C6_DuplicateKeyPanics ==
    [][ /\ DuplicateAttempted =>
              /\ phase' = "panicked"
              /\ Len(ts'.edges) = Cardinality(Keys(Range(ts'.edges)))
              /\ Len(ts'.edges) < Len(ts.edges) + BagCardinality(Attempts)
        /\ phase = "panicked" => UNCHANGED vars ]_vars

C6_PanickedOnOtherRight ==
    /\ driver = "hand"
    /\ phase = "panicked"
    /\ \E e \in BagToSet(hist.closed), f \in Stored :
          EdgeCmp(e, f) = 0 /\ e.right # f.right

\* C7: the edges of a TreeSequence finalized by the builder are exactly the
\* edges the calls opened, one each, from the cursor at its opening to the
\* cursor at the transplant that closed it, or to seq_length.
C7_OneEdgePerOpenPeriod ==
    (FromBuilder /\ Finalized) =>
        /\ hist.open = <<>>
        /\ BagToSet(hist.closed) = Stored
        /\ BagCardinality(hist.closed) = Len(ts.edges)

C7_ClosedByTransplantAndByEnd ==
    /\ driver = "builder"
    /\ phase = "ended"
    /\ Len(ts.edges) = 2
    /\ ts.edges[1].child = ts.edges[2].child
    /\ ts.edges[1].right = ts.edges[2].left
    /\ ts.edges[1].left < ts.edges[1].right
    /\ ts.edges[2].right = seq_length
    /\ ts.edges[2].left < seq_length

\* The edges are ordinary: every stored edge is non-empty, ends by
\* seq_length and joins two different nodes.
OrdinaryEdges ==
    \A e \in Stored :
        e.left < e.right /\ e.right <= seq_length /\ e.parent # e.child

\* Where c is given a parent again after x: the least left, x or greater, of
\* an edge of c; seq_length when there is none.
NextParentAt(c, x) ==
    LET lefts == {e.left : e \in {f \in Stored : f.child = c /\ f.left >= x}}
    IN  IF lefts = {} THEN seq_length
        ELSE CHOOSE l \in lefts : \A m \in lefts : l <= m

\* C16: after a transplant(c, None) at cursor x, every Tree yielded for a
\* position from x up to where c is given a parent again has parent[c] = None.
\* (The k-th Tree is for the positions from the k-th advance's boundary on.)
C16_RootUntilReinserted ==
    (phase = "exhausted" /\ FromBuilder /\ OrdinaryEdges) =>
        \A o \in orphaned :
            \A k \in 1..Len(trees) :
                (o[2] <= Boundary(advances[k])
                    /\ Boundary(advances[k]) < NextParentAt(o[1], o[2]))
                => trees[k][o[1] + 1] = None

\* C17: the iterator signals exhaustion by its (2n + 1)-th advance at the
\* latest, n being the number of edges; it signals exhaustion only with both
\* the active and the upcoming set empty; and every later advance signals
\* exhaustion again and yields no Tree.
C17_IterationTerminates ==
    [][ /\ phase = "iterating" => Len(advances) <= 2 * Len(ts.edges)
        /\ phase = "exhausted" =>
              /\ Len(advances) <= 2 * Len(ts.edges) + 1
              /\ it.current_edges = <<>> /\ it.upcoming_edges = <<>>
              /\ ~next(it).some
        /\ (phase = "iterating" /\ phase' = "exhausted") =>
              /\ trees' = trees
              /\ it'.current_edges = <<>> /\ it'.upcoming_edges = <<>>
        /\ phase = "exhausted" => trees' = trees ]_vars

C17_ExhaustedAfterThreeAdvances ==
    /\ phase = "exhausted"
    /\ Len(ts.edges) = 2
    /\ Len(advances) = 3
    /\ Len(trees) = 2
    /\ advances[2].arrive = None

\* num_nodes as the claims define it: one more than the largest node id an
\* edge names, 0 for no edge.
NumNodesOf(S) ==
    LET ids == {e.parent : e \in S} \cup {e.child : e \in S}
    IN  IF ids = {} THEN 0
        ELSE 1 + (CHOOSE n \in ids : \A m \in ids : m <= n)

\* C19: num_nodes is always one more than the largest node id named by a
\* stored edge, 0 when no edge is stored, and every Tree yielded by the
\* iteration has exactly num_nodes entries.
C19_NumNodesCoversEveryId ==
    /\ ts.num_nodes = NumNodesOf(Stored)
    /\ \A k \in 1..Len(trees) : Len(trees[k]) = ts.num_nodes

C19_LargestIdIsAParent ==
    /\ Len(trees) > 0
    /\ ts.num_nodes = MaxNode + 1
    /\ \A e \in Stored : e.child < MaxNode
    /\ \E k \in 1..Len(trees) : \E i \in 1..Len(trees[k]) : trees[k][i] # None

\* add_edge for each edge of a sequence in turn, from TreeSequence t on.
RECURSIVE AddAll(_, _)
AddAll(t, es) ==
    IF es = <<>> THEN [ts |-> t, panicked |-> FALSE]
    ELSE LET e == Head(es)
             r == add_edge(t, e.child, e.parent, e.left, e.right)
         IN  IF r.panicked THEN r ELSE AddAll(r.ts, Tail(es))

\* The orders in which the edges of a set can be added.
Orders(S) ==
    {s \in [1..Cardinality(S) -> S] :
        \A i \in DOMAIN s, j \in DOMAIN s : i # j => s[i] # s[j]}

\* The edges test_tree_sequence_builder adds by hand, in its order.
HandRolled ==
    << Edge(4, 0, 0, 1), Edge(4, 1, 0, 1), Edge(5, 2, 0, 3), Edge(5, 3, 0, 3),
       Edge(6, 4, 0, 3), Edge(6, 5, 0, 2), Edge(6, 0, 1, 2), Edge(5, 1, 1, 3) >>

\* C20: the TreeSequence does not depend on the order of the add_edge calls:
\* adding the edges added so far (with pairwise distinct keys, so with no
\* panic) in any order gives the TreeSequence at hand, and example_ts equals
\* the TreeSequence the test adds by hand in another order.
C20_OrderOfAddEdgeIsImmaterial ==
    /\ (driver \in {"hand", "builder"} /\ phase # "panicked") =>
          \A s \in Orders(BagToSet(hist.closed)) :
              AddAll(NewTreeSequence, s) = [ts |-> ts, panicked |-> FALSE]
    /\ (driver = "example" /\ phase = "ended") =>
          AddAll(NewTreeSequence, HandRolled) = [ts |-> ts, panicked |-> FALSE]

C20_ExampleEqualsHandRolled ==
    /\ driver = "example"
    /\ phase = "ended"
    /\ Len(ts.edges) = Len(HandRolled)
    /\ Last(ts.edges) = HandRolled[Len(HandRolled) - 1]

\* C15: on example_ts the streaming iterator, read after each advance, gives
\* the parent arrays the eager iterator gave, in the same order and as many.
C15_StreamingMatchesEager ==
    (driver = "example" /\ phase \in {"streaming", "streamed"}) =>
        /\ Len(strees) <= Len(trees)
        /\ strees = SubSeq(trees, 1, Len(strees))
        /\ phase = "streamed" => strees = trees

C15_ExampleStreamed ==
    /\ driver = "example"
    /\ phase = "streamed"
    /\ Len(strees) = 3
    /\ strees[2] # strees[1]
    /\ strees[3] # strees[2]

\* ------------------------------------------- claims on short constructions
\* add_edge(ci, p, 0, L) for each child in turn, as the tests do by hand.
RECURSIVE HandBuilt(_, _, _, _)
HandBuilt(t, children, p, L) ==
    IF children = <<>> THEN [ts |-> t, panicked |-> FALSE]
    ELSE LET r == add_edge(t, Head(children), p, 0, L)
         IN  IF r.panicked THEN r ELSE HandBuilt(r.ts, Tail(children), p, L)

\* The calls were insert(cs, p) and end(L), and nothing else.
IsFlat == Len(calls) = 2 /\ calls[1].op = "insert" /\ calls[2].op = "end"

\* What C11 says of the TreeSequence end returned.
FlatGeneration(cs, p, L) ==
    /\ phase = "ended"
    /\ Len(ts.edges) = Len(cs)
    /\ Range(ts.edges) = {Edge(p, cs[i], 0, L) : i \in 1..Len(cs)}
    /\ ~HandBuilt(NewTreeSequence, cs, p, L).panicked
    /\ ts = HandBuilt(NewTreeSequence, cs, p, L).ts

\* C11 as stated: for any children c1..cn, parent p and length L,
\* new().insert([c1..cn], p).end(L) is a TreeSequence of exactly n edges
\* (p, ci, 0, L), equal to the one made by add_edge(ci, p, 0, L) for each i.
C11_FlatGenerationAnyChildren ==
    IsFlat => FlatGeneration(calls[1].children, calls[1].arg, calls[2].arg)

\* C11 as amended: the same for pairwise distinct children c1..cn.
C11_FlatGenerationDistinctChildren ==
    (IsFlat /\ Distinct(calls[1].children))
        => FlatGeneration(calls[1].children, calls[1].arg, calls[2].arg)

C11_TwoChildrenFlat ==
    /\ IsFlat
    /\ Len(calls[1].children) = 2
    /\ Distinct(calls[1].children)
    /\ calls[2].arg > 0
    /\ phase = "ended"
    /\ Len(ts.edges) = 2

\* C12: for every L, new().end(L) returns a TreeSequence with zero edges,
\* equal to TreeSequence::new().
C12_EmptyBuilderGivesEmpty ==
    (Len(calls) = 1 /\ calls[1].op = "end") =>
        /\ phase = "ended"
        /\ ts.edges = <<>>
        /\ ts = NewTreeSequence

C12_EndedAtOnce ==
    /\ Len(calls) = 1
    /\ calls[1].op = "end"
    /\ calls[1].arg > 0
    /\ phase = "ended"

\* The step is a call transplant(cs, np) on a builder in which no child of cs
\* has an open edge (and, when np is Some, cs names no child twice, so that
\* none has an open edge at its turn either).
DanglingTransplant ==
    /\ Len(calls') = Len(calls) + 1
    /\ Last(calls').op = "transplant"
    /\ \A i \in 1..Len(curr_edges) :
          curr_edges[i].child \notin Range(Last(calls').children)
    /\ Last(calls').arg # None => Distinct(Last(calls').children)

\* The edges transplant(cs, Some(np)) opens at the cursor.
OpenedAt(cs, np, cursor) == [i \in 1..Len(cs) |-> OpenEdge(cs[i], np, cursor)]

\* C13: a transplant of children that have no open edge does not panic and
\* adds no edge to the TreeSequence; with Some(p) it opens (child, p, cursor)
\* for each child, with None it leaves the builder as it was.
C13_DanglingTransplantIsSilent ==
    [][ DanglingTransplant =>
          /\ phase' = "building"
          /\ ts' = ts
          /\ last_breakpoint' = last_breakpoint
          /\ curr_edges' =
                IF Last(calls').arg # None
                THEN curr_edges \o OpenedAt(Last(calls').children,
                                            Last(calls').arg, last_breakpoint)
                ELSE curr_edges ]_vars

C13_OpenedWithoutClosing ==
    /\ driver = "logged"
    /\ Len(calls) = 2
    /\ calls[1].op = "breakpoint"
    /\ calls[2].op = "transplant"
    /\ calls[2].arg # None
    /\ Len(calls[2].children) = 2
    /\ Len(curr_edges) = 2
    /\ curr_edges[1].left = last_breakpoint
    /\ last_breakpoint > 0
    /\ ts.edges = <<>>
    /\ phase = "building"

\* ------------------------------------------------- claims on the sweep's sets
Sweeping == phase \in {"iterating", "exhausted"}

\* The three sets of a sweep: the edges still to come, the edges of the
\* current tree, and the edges the iterator holds no longer.
Upcoming == Range(it.upcoming_edges)

Active == Range(it.current_edges)

Evicted == Stored \ (Upcoming \cup Active)

\* Every edge is in exactly one set: the two vectors hold stored edges only,
\* share none and repeat none; once next has returned None both are empty.
SweepPartition ==
    Sweeping =>
        /\ Upcoming \cup Active \subseteq Stored
        /\ Upcoming \cap Active = {}
        /\ Len(it.upcoming_edges) = Cardinality(Upcoming)
        /\ Len(it.current_edges) = Cardinality(Active)
        /\ phase = "exhausted" => Upcoming = {} /\ Active = {}

\* iter() starts the sweep with every edge upcoming.
SweepStart == Upcoming' = Stored' /\ Active' = {}

\* One call of next: edges leave upcoming only for active and active only
\* for evicted, and the edges that become active have a left no smaller than
\* any edge that became active before and smaller than any still upcoming.
SweepStep ==
    LET arrived == Upcoming \ Upcoming'
    IN  /\ Stored' = Stored
        /\ Upcoming' \subseteq Upcoming
        /\ arrived \subseteq Active'
        /\ Active' \subseteq Active \cup arrived
        /\ Evicted \subseteq Evicted'
        /\ \A a \in arrived :
              /\ \A o \in Stored \ Upcoming : o.left <= a.left
              /\ \A u \in Upcoming' : a.left < u.left

\* C22: during a sweep every edge of the TreeSequence is in exactly one of
\* upcoming, active and evicted; an edge moves from upcoming to active once
\* and from active to evicted once, never backwards; edges become active in
\* ascending order of left; at exhaustion every edge has been evicted.
C22_EdgesMoveForwardOnce ==
    [][/\ SweepPartition'
       /\ (~Sweeping /\ Sweeping') => SweepStart
       /\ (Sweeping /\ Sweeping') => SweepStep]_vars

C22_TwoArrivalsAllEvicted ==
    /\ driver = "builder"
    /\ phase = "exhausted"
    /\ \A e \in Stored : e.left < e.right
    /\ Len(ts.edges) = 2
    /\ ts.edges[1].left < ts.edges[2].left
    /\ ts.edges[1].right > ts.edges[2].left
    /\ Len(trees) >= 2
    /\ Evicted = Stored

\* ------------------------------------- claims on disciplined constructions
\* No call has panicked and every stored edge is non-empty.
NoPanicNoEmptyEdge ==
    /\ phase # "panicked"
    /\ \A e \in Stored : e.left < e.right

\* C21 as stated: when every child has at most one open edge at a time and
\* the cursor is advanced between the opening of an edge and its closing (by
\* transplant, or by end with a seq_length beyond the cursor), no builder
\* call panics on a duplicate edge and every stored edge has left < right.
C21_DisciplineNeverPanics ==
    driver \in {"disciplined", "monotone"} => NoPanicNoEmptyEdge

\* C21 as amended: the same when, besides, no breakpoint moves the cursor
\* backward.
C21_ForwardDisciplineNeverPanics ==
    driver = "monotone" => NoPanicNoEmptyEdge

C21_SameParentTwiceNoPanic ==
    /\ driver = "monotone"
    /\ phase = "ended"
    /\ Len(ts.edges) = 2
    /\ ts.edges[1].child = ts.edges[2].child
    /\ ts.edges[1].parent = ts.edges[2].parent
    /\ ts.edges[1].right <= ts.edges[2].left

\* ------------------------------------------------------- claims on a Tree
\* x and its ancestors: the least set that holds x and the recorded parent
\* of each of its members.
Ancestors(p, x) ==
    LET closed(S) == x \in S /\ \A y \in S : parent(p, y) # None => parent(p, y) \in S
    IN  CHOOSE S \in SUBSET TreeIds :
            closed(S) /\ \A T \in SUBSET S : closed(T) => T = S

\* The parent pointers hold a cycle: a non-empty set of nodes each of which
\* has its parent in the set.
Cyclic(p) ==
    \E S \in SUBSET TreeIds :
        S # {} /\ \A y \in S : parent(p, y) \in S

\* The root above x in an acyclic Tree: its one ancestor with no parent.
RootOf(p, x) == CHOOSE r \in Ancestors(p, x) : parent(p, r) = None

\* The deepest common ancestor: the common ancestor that every common
\* ancestor is an ancestor of; None when there is no common ancestor.
DeepestCommon(p, u, v) ==
    LET common == Ancestors(p, u) \cap Ancestors(p, v)
    IN  IF common = {} THEN None
        ELSE CHOOSE m \in common : common \subseteq Ancestors(p, m)

\* The first node of chain a that also occurs in chain b, None when the
\* chains share no node.
FirstShared(a, b) ==
    IF \E i \in 1..Len(a) : a[i] \in Range(b)
    THEN a[CHOOSE i \in 1..Len(a) :
              a[i] \in Range(b) /\ \A j \in 1..(i - 1) : a[j] \notin Range(b)]
    ELSE None

\* What C8 says of a returned mrca(x, y) = value.
IsDeepestCommon(p, x, y, value) ==
    /\ value = DeepestCommon(p, x, y)
    /\ value = FirstShared(ancestor_chain(p, x), ancestor_chain(p, y))
    /\ (value = None) <=> (RootOf(p, x) # RootOf(p, y))

\* C8: on a Tree with acyclic parent pointers mrca returns, and what it
\* returns is the deepest node common to the two ancestor chains (the first
\* node of the first chain that occurs in the second), None exactly when the
\* chains end in different roots.
C8_MrcaIsDeepestCommonAncestor ==
    ~Cyclic(t_parent) =>
        /\ t_res.uv.state # "hung" /\ t_res.vu.state # "hung"
        /\ t_res.uv.state = "returned" =>
              IsDeepestCommon(t_parent, t_u, t_v, t_res.uv.value)
        /\ t_res.vu.state = "returned" =>
              IsDeepestCommon(t_parent, t_v, t_u, t_res.vu.value)

C8_MrcaStrictlyAboveBoth ==
    /\ ~Cyclic(t_parent)
    /\ t_res.uv.state = "returned"
    /\ t_res.uv.value \notin {None, t_u, t_v}
    /\ parent(t_parent, t_u) # t_res.uv.value
    /\ parent(t_parent, t_v) = t_res.uv.value

\* C9: mrca(u, v) and mrca(v, u) have the same outcome: both return the same
\* value, or neither returns.
C9_MrcaSymmetric ==
    (t_res.uv.state # "pending" /\ t_res.vu.state # "pending") =>
        t_res.uv = t_res.vu

C9_BothOrdersReturned ==
    /\ t_u # t_v
    /\ t_res.uv.state = "returned"
    /\ t_res.vu.state = "returned"
    /\ t_res.uv.value \notin {None, t_u, t_v}

\* C10: whenever mrca(u, u) returns, it returns Some(u): for a node with a
\* parent, for a root, and for an id beyond the parent array.
C10_MrcaOfNodeWithItself ==
    (t_u = t_v /\ t_res.uv.state = "returned") => t_res.uv.value = t_u

C10_ReturnedForIdBeyondArray ==
    /\ t_u = t_v
    /\ t_res.uv.state = "returned"
    /\ t_u >= Len(t_parent)
    /\ Len(t_parent) > 0

\* C14: parent(u) returns None for every u beyond the parent array and for
\* every u inside it with no recorded parent, and Some(p) for a u inside it
\* with the recorded parent p; it raises no error.
C14_ParentOrNone ==
    t_res.pu.state = "returned" =>
        /\ t_u >= Len(t_parent) => t_res.pu.value = None
        /\ t_u < Len(t_parent) => t_res.pu.value = t_parent[t_u + 1]

C14_NoneBeyondTheArray ==
    /\ t_res.pu.state = "returned"
    /\ t_res.pu.value = None
    /\ t_u >= Len(t_parent)
    /\ \E i \in 1..Len(t_parent) : t_parent[i] # None

\* C18: every query on every Tree returns: no mrca call is left walking an
\* ancestor chain that never reaches a node without a recorded parent.
C18_EveryQueryReturns ==
    /\ t_res.uv.state # "hung"
    /\ t_res.vu.state # "hung"

=============================================================================
